---- MODULE Spec2Model ----
(***************************************************************************)
(* Model of the MCP chat client of src/mcp_client.py: the ChatBot object   *)
(* (exit stack, three capability lists, session-ownership map), the        *)
(* startup sequence connect_to_servers / connect_to_server /               *)
(* _register_server_capabilities, the interactive chat_loop and main's     *)
(* try / finally cleanup.                                                  *)
(*                                                                         *)
(* Strings of the program are sequences of one-character strings, so that  *)
(* strip, lower, startswith and shlex.split are computed, not assumed.     *)
(***************************************************************************)
EXTENDS Integers, Sequences, FiniteSets, TLC

\* ------------------------------------------------------------------ bounds

\* Number of entries of the server roster (servers.items()).
NumServers == 2

\* Most server responses of note in one run: a capability declared in a
\* listing, or a launch, initialize or listing call that fails.
MaxEvents == 2

\* Most argument tokens after the resource name of one command.
MaxArgs == 2

\* ------------------------------------------------------- strings as data

Whitespace == {" ", "\t"}

UpperToLower ==
  [c \in {"A","B","C","D","E","F","G","H","I","J","K","L","M","N","O","P","Q",
          "R","S","T","U","V","W","X","Y","Z"} |->
     CASE c = "A" -> "a" [] c = "B" -> "b" [] c = "C" -> "c" [] c = "D" -> "d"
       [] c = "E" -> "e" [] c = "F" -> "f" [] c = "G" -> "g" [] c = "H" -> "h"
       [] c = "I" -> "i" [] c = "J" -> "j" [] c = "K" -> "k" [] c = "L" -> "l"
       [] c = "M" -> "m" [] c = "N" -> "n" [] c = "O" -> "o" [] c = "P" -> "p"
       [] c = "Q" -> "q" [] c = "R" -> "r" [] c = "S" -> "s" [] c = "T" -> "t"
       [] c = "U" -> "u" [] c = "V" -> "v" [] c = "W" -> "w" [] c = "X" -> "x"
       [] c = "Y" -> "y" [] c = "Z" -> "z"]

\* Mutant: the comparison with "quit" is case-sensitive.
LowerKeepsCase(s) == s

\* str.lower()
Lower(s) ==
  [i \in 1..Len(s) |-> IF s[i] \in DOMAIN UpperToLower THEN UpperToLower[s[i]] ELSE s[i]]

RECURSIVE LStrip(_)
LStrip(s) == IF s # <<>> /\ Head(s) \in Whitespace THEN LStrip(Tail(s)) ELSE s

RECURSIVE RStrip(_)
RStrip(s) ==
  IF s # <<>> /\ s[Len(s)] \in Whitespace THEN RStrip(SubSeq(s, 1, Len(s) - 1)) ELSE s

\* str.strip()
Strip(s) == RStrip(LStrip(s))

\* str.startswith(prefix)
StartsWith(s, prefix) ==
  Len(s) >= Len(prefix) /\ SubSeq(s, 1, Len(prefix)) = prefix

\* ------------------------------------------------------------ shlex.split

Quotes == {"'", "\""}
Escape == "\\"

\* What shlex.split returns: the token list, or the ValueError it raises.
LexOk(tokens) == [ok |-> TRUE, tokens |-> tokens]
LexError == [ok |-> FALSE, tokens |-> <<>>]

\* shlex.shlex(posix=True, whitespace_split=True, commenters='').read_token,
\* iterated to the end of the input. st is the lexer state: " " between
\* tokens, "a" inside a word, a quote character inside that quote, "\\"
\* after a backslash (est is the state the escape returns to).
RECURSIVE Lex(_, _, _, _, _, _, _)
Lex(s, i, st, est, token, quoted, out) ==
  IF i > Len(s)
  THEN IF st \in Quotes THEN LexError              \* No closing quotation
       ELSE IF st = Escape THEN LexError           \* No escaped character
       ELSE IF st = "a" /\ (token # <<>> \/ quoted)
            THEN LexOk(Append(out, token))
            ELSE LexOk(out)
  ELSE
    LET c == s[i] IN
    IF st = " "
    THEN IF c \in Whitespace THEN Lex(s, i + 1, " ", est, <<>>, FALSE, out)
         ELSE IF c = Escape THEN Lex(s, i + 1, Escape, "a", <<>>, FALSE, out)
         ELSE IF c \in Quotes THEN Lex(s, i + 1, c, est, <<>>, FALSE, out)
         ELSE Lex(s, i + 1, "a", est, <<c>>, FALSE, out)
    ELSE IF st \in Quotes
    THEN IF c = st THEN Lex(s, i + 1, "a", est, token, TRUE, out)
         ELSE IF c = Escape /\ st = "\""
              THEN Lex(s, i + 1, Escape, st, token, TRUE, out)
         ELSE Lex(s, i + 1, st, est, Append(token, c), TRUE, out)
    ELSE IF st = Escape
    THEN IF est \in Quotes /\ c # Escape /\ c # est
         THEN Lex(s, i + 1, est, est, token \o <<Escape, c>>, quoted, out)
         ELSE Lex(s, i + 1, est, est, Append(token, c), quoted, out)
    ELSE \* st = "a"
         IF c \in Whitespace
         THEN IF token # <<>> \/ quoted
              THEN Lex(s, i + 1, " ", est, <<>>, FALSE, Append(out, token))
              ELSE Lex(s, i + 1, " ", est, <<>>, FALSE, out)
         ELSE IF c \in Quotes THEN Lex(s, i + 1, c, est, token, quoted, out)
         ELSE IF c = Escape THEN Lex(s, i + 1, Escape, "a", token, quoted, out)
         ELSE Lex(s, i + 1, "a", est, Append(token, c), quoted, out)

ShlexSplit(s) == Lex(s, 1, " ", "a", <<>>, FALSE, <<>>)

\* ------------------------------------------------------ program constants

None == 0

\* The roster: server i is the i-th entry of servers.items(). A session
\* object is identified by the server it talks to.
Servers == 1..NumServers

Kinds == <<"tools", "prompts", "resources">>

\* tool_name of process_query
ToolName == <<"e","x","e","c","u","t","e","_","g","p","t","4","a","l","l">>

QuitWord == <<"q","u","i","t">>
AtSign == <<"@">>
AtResources == <<"@","r","e","s","o","u","r","c","e","s">>

\* ------------------------------------------------------------ environment

\* Capability names the servers may declare.
ResName == <<"r","1">>
Names == {ToolName, ResName}

\* What a server declares for a name: the description and, for a resource,
\* the locator are the declaring server's own.
ServerTool(s, n) == [name |-> n, description |-> <<s, n>>]
ServerPrompt(s, n) == [name |-> n, description |-> <<s, n>>, arguments |-> <<>>]
ServerResource(s, n) == [name |-> n, description |-> <<s, n>>, uri |-> <<"uri", s, n>>]

NameSeqs(max) == UNION {[1..k -> Names] : k \in 0..max}

\* A listing call raises, returns nothing (None), or returns declared names.
ListRaises == [status |-> "raises", names |-> <<>>]
ListAbsent == [status |-> "absent", names |-> <<>>]
ListOf(names) == [status |-> "ok", names |-> names]

\* A call_tool / read_resource call returns a text or raises.
CallOutcomes == {"ok", "raises"}

\* Lines the user may type.
AtResource == <<"@","r","e","s","o","u","r","c","e">>
Sp == <<" ">>
Lines ==
  { <<>>,
    <<" ", " ">>,
    QuitWord,
    <<"Q","U","I","T">>,
    <<" ","Q","u","i","t"," ">>,
    QuitWord \o Sp \o <<"x">>,
    AtResources,
    AtResource,
    AtResource \o Sp \o ResName,
    AtResource \o Sp \o <<"m">>,
    AtResource \o Sp \o ResName \o Sp \o <<"k","=","v">>,
    AtResource \o Sp \o ResName \o Sp \o <<"k","=","\"","v">>,
    <<"@","x">> \o Sp \o ResName,
    <<" ","h","i"," ">> }

\* Tokens that may follow the resource name, as shlex.split leaves them.
ArgTokens ==
  { <<"k","=","v">>,
    <<"k","=","w">>,
    <<"j","=","v">>,
    <<"x">>,
    <<"a","=","=","b">>,
    <<"q","=","\"","v","\"">>,
    <<"q","=","'","v","\"">>,
    <<"d","=","'">>,
    <<"=","v">> }

RECURSIVE TokenLists(_)
TokenLists(max) ==
  IF max = 0 THEN {<<>>}
  ELSE LET shorter == TokenLists(max - 1)
       IN shorter \cup {Append(l, tok) : l \in shorter, tok \in ArgTokens}

\* input("\nQuery: ").strip() of those lines
Typed == {Strip(line) : line \in Lines}

\* _parse_command_arguments' shlex.split(query), computed once for the lines
\* that can be typed
SplitOfTyped == [text \in Typed |-> ShlexSplit(text)]
Tokenize(text) == IF text \in Typed THEN SplitOfTyped[text] ELSE ShlexSplit(text)

\* ------------------------------------------------------------------ state

VARIABLES
  phase,                \* "Connecting", "Running", "Terminating", "Exited"
  cur,                  \* roster entry connect_to_servers is at
  step,                 \* position inside connect_to_server
  exit_stack,           \* ChatBot.exit_stack: acquired contexts, oldest first
  released,             \* how often each context's exit has run
  closed,               \* the contexts exited so far, in the order of exit
  handshake,            \* per server: "pending", "ok" or how it failed
  listed,               \* per server and kind: "none", "ok", "error"
  declared,             \* <<server, kind, name>> returned by a listing call
  listing_log,          \* the same, as the sequence in which they were returned
  available_tools,      \* ChatBot.available_tools
  available_prompts,    \* ChatBot.available_prompts
  available_resources,  \* ChatBot.available_resources
  sessions,             \* ChatBot.sessions: name -> session
  eof,                  \* input() has hit the end of input
  query,                \* the stripped line the current iteration read
  out,                  \* what the last iteration printed
  calls,                \* the session calls the last iteration made
  args_list,            \* parts[2:] handed to _parse_prompt_arguments
  args,                 \* the dict it returned, as <<key, value>> in dict order
  exitBy                \* how the chat phase ended: "none", "quit", "interrupt"

vars == <<phase, cur, step, exit_stack, released, closed, handshake, listed, declared,
          listing_log, available_tools, available_prompts, available_resources, sessions,
          eof, query, out, calls, args_list, args, exitBy>>

registry == <<available_tools, available_prompts, available_resources, sessions>>
loopVars == <<eof, query, out, calls, args_list, args>>

Contexts == {"transport", "session"} \X Servers

\* ChatBot.__init__, and main up to the call of connect_to_servers
Init ==
  /\ phase = "Connecting"
  /\ cur = 1
  /\ step = "launch"
  /\ exit_stack = <<>>
  /\ released = [c \in Contexts |-> 0]
  /\ closed = <<>>
  /\ handshake = [s \in Servers |-> "pending"]
  /\ listed = [s \in Servers |-> [k \in {"tools", "prompts", "resources"} |-> "none"]]
  /\ declared = {}
  /\ listing_log = <<>>
  /\ available_tools = <<>>
  /\ available_prompts = <<>>
  /\ available_resources = <<>>
  /\ sessions = [n \in {} |-> None]
  /\ eof = FALSE
  /\ query = <<>>
  /\ out = <<>>
  /\ calls = <<>>
  /\ args_list = <<>>
  /\ args = <<>>
  /\ exitBy = "none"

\* ---------------------------------------------------------------- startup

\* Mutant: registration appends the record and leaves the session map alone.
SessionsPutNothing(map, name, session) == map

\* self.sessions[name] = session
SessionsPut(map, name, session) ==
  [n \in DOMAIN map \cup {name} |-> IF n = name THEN session ELSE map[n]]

\* self.sessions.get(name)
SessionsGet(name) == IF name \in DOMAIN sessions THEN sessions[name] ELSE None

\* self.available_xxx.append(item)
ListAppend(list, item) == Append(list, item)

\* The loop of _register_tools / _register_prompts / _register_resources over
\* the items of a response: each item's name is given to the session, and the
\* item is appended to the kind's list. reg is [map, list].
RECURSIVE RegisterAll(_, _, _)
RegisterAll(reg, items, session) ==
  IF items = <<>> THEN reg
  ELSE RegisterAll([map  |-> SessionsPut(reg.map, Head(items).name, session),
                    list |-> ListAppend(reg.list, Head(items))],
                   Tail(items), session)

Registered == Len(available_tools) + Len(available_prompts) + Len(available_resources)

\* The failures so far: handshakes that failed and listings that raised.
Faults ==
  Cardinality({s \in Servers : handshake[s] \notin {"pending", "ok"}})
    + Cardinality({sk \in Servers \X {"tools", "prompts", "resources"} :
                     listed[sk[1]][sk[2]] = "error"})

Events == Faults + Registered

\* Whether a server call may succeed, may fail, in the current state.
CallResults == IF Events < MaxEvents THEN {TRUE, FALSE} ELSE {TRUE}

\* The responses a listing call can give in the current state.
ListResponses ==
  {ListAbsent}
    \cup (IF Events < MaxEvents THEN {ListRaises} ELSE {})
    \cup {ListOf(r) : r \in NameSeqs(MaxEvents - Events)}

DeclaredBy(s, kind, resp) == {<<s, kind, resp[i]>> : i \in 1..Len(resp)}
DeclaredSeq(s, kind, resp) == [i \in 1..Len(resp) |-> <<s, kind, resp[i]>>]

\* Mutant: the chat loop starts as soon as the first roster entry is done.
NextServerStartsLoop ==
  /\ cur' = cur + 1
  /\ step' = (IF cur < NumServers THEN "launch" ELSE "done")
  /\ phase' = "Running"

\* connect_to_servers moves to the next roster entry; after the last one it
\* returns and main calls chat_loop.
NextServer ==
  /\ cur' = cur + 1
  /\ IF cur < NumServers
     THEN step' = "launch" /\ phase' = "Connecting"
     ELSE step' = "done" /\ phase' = "Running"

\* Mutant: a failed handshake ends connect_to_servers, as if the exception
\* left the roster loop.
HandshakeFailedEndsRoster(how) ==
  /\ handshake' = [handshake EXCEPT ![cur] = how]
  /\ cur' = NumServers + 1
  /\ step' = "done"
  /\ phase' = "Running"

\* Mutant: after a failed handshake the capabilities of the server are
\* registered all the same.
HandshakeFailedStillRegisters(how) ==
  /\ handshake' = [handshake EXCEPT ![cur] = how]
  /\ step' = "tools"
  /\ UNCHANGED <<phase, cur>>

\* The except clause of connect_to_server: the failure is printed and the
\* contexts already entered stay on the exit stack.
HandshakeFailed(how) ==
  /\ handshake' = [handshake EXCEPT ![cur] = how]
  /\ NextServer

\* The for loop of _register_server_capabilities goes on to the next kind;
\* after the last one connect_to_server returns.
NextKind(kind) ==
  IF kind = "resources" THEN NextServer
  ELSE /\ step' = (IF kind = "tools" THEN "prompts" ELSE "resources")
       /\ UNCHANGED <<phase, cur>>

\* Mutant: a listing that raises ends the discovery of that server.
ListingFailedSkipsRest(kind) ==
  /\ listed' = [listed EXCEPT ![cur][kind] = "error"]
  /\ NextServer

\* The except clause of _register_server_capabilities: the failure is
\* printed and the loop goes on with the next kind.
ListingFailed(kind) ==
  /\ listed' = [listed EXCEPT ![cur][kind] = "error"]
  /\ NextKind(kind)

\* enter_async_context(stdio_client(server_params))
LaunchTransport ==
  /\ phase = "Connecting" /\ step = "launch"
  /\ \E ok \in CallResults :
       IF ok
       THEN /\ exit_stack' = Append(exit_stack, <<"transport", cur>>)
            /\ step' = "session"
            /\ UNCHANGED <<phase, cur, handshake>>
       ELSE /\ HandshakeFailed("launch_failed")
            /\ UNCHANGED exit_stack
  /\ UNCHANGED <<released, closed, listed, declared, listing_log, registry, loopVars, exitBy>>

\* enter_async_context(ClientSession(read, write))
EnterSession ==
  /\ phase = "Connecting" /\ step = "session"
  /\ exit_stack' = Append(exit_stack, <<"session", cur>>)
  /\ step' = "initialize"
  /\ UNCHANGED <<phase, cur, handshake, released, closed, listed, declared, listing_log, registry,
                 loopVars, exitBy>>

\* await session.initialize()
Initialize ==
  /\ phase = "Connecting" /\ step = "initialize"
  /\ \E ok \in CallResults :
       IF ok
       THEN /\ handshake' = [handshake EXCEPT ![cur] = "ok"]
            /\ step' = "tools"
            /\ UNCHANGED <<phase, cur>>
       ELSE HandshakeFailed("init_failed")
  /\ UNCHANGED <<exit_stack, released, closed, listed, declared, listing_log, registry, loopVars, exitBy>>

\* _register_server_capabilities, first entry: list_tools, _register_tools.
\* response.tools of a None response raises, which the loop catches.
DiscoverTools ==
  /\ phase = "Connecting" /\ step = "tools"
  /\ \E resp \in ListResponses :
       IF resp \in {ListRaises, ListAbsent}
       THEN /\ Events < MaxEvents
            /\ ListingFailed("tools")
            /\ UNCHANGED <<declared, listing_log, available_tools, sessions>>
       ELSE LET reg == RegisterAll([map |-> sessions, list |-> available_tools],
                                   [i \in 1..Len(resp.names) |->
                                      ServerTool(cur, resp.names[i])],
                                   cur)
            IN /\ listed' = [listed EXCEPT ![cur]["tools"] = "ok"]
               /\ NextKind("tools")
               /\ declared' = declared \cup DeclaredBy(cur, "tools", resp.names)
               /\ listing_log' = listing_log \o DeclaredSeq(cur, "tools", resp.names)
               /\ sessions' = reg.map
               /\ available_tools' = reg.list
  /\ UNCHANGED <<exit_stack, released, closed, handshake, available_prompts,
                 available_resources, loopVars, exitBy>>

\* The dict _register_prompts stores for a prompt
PromptEntry(prompt) ==
  [name |-> prompt.name, description |-> prompt.description,
   arguments |-> prompt.arguments]

\* second entry: list_prompts, _register_prompts (a None or empty response
\* registers nothing)
DiscoverPrompts ==
  /\ phase = "Connecting" /\ step = "prompts"
  /\ \E resp \in ListResponses :
       IF resp = ListRaises
       THEN /\ ListingFailed("prompts")
            /\ UNCHANGED <<declared, listing_log, available_prompts, sessions>>
       ELSE LET names == resp.names
                reg == RegisterAll([map |-> sessions, list |-> available_prompts],
                                   [i \in 1..Len(names) |->
                                      PromptEntry(ServerPrompt(cur, names[i]))],
                                   cur)
            IN /\ listed' = [listed EXCEPT ![cur]["prompts"] = "ok"]
               /\ NextKind("prompts")
               /\ declared' = declared \cup DeclaredBy(cur, "prompts", names)
               /\ listing_log' = listing_log \o DeclaredSeq(cur, "prompts", names)
               /\ sessions' = reg.map
               /\ available_prompts' = reg.list
  /\ UNCHANGED <<exit_stack, released, closed, handshake, available_tools,
                 available_resources, loopVars, exitBy>>

\* third entry: list_resources, _register_resources; connect_to_server then
\* returns
DiscoverResources ==
  /\ phase = "Connecting" /\ step = "resources"
  /\ \E resp \in ListResponses :
       IF resp = ListRaises
       THEN /\ ListingFailed("resources")
            /\ UNCHANGED <<declared, listing_log, available_resources, sessions>>
       ELSE LET names == resp.names
                reg == RegisterAll([map |-> sessions, list |-> available_resources],
                                   [i \in 1..Len(names) |-> ServerResource(cur, names[i])],
                                   cur)
            IN /\ listed' = [listed EXCEPT ![cur]["resources"] = "ok"]
               /\ NextKind("resources")
               /\ declared' = declared \cup DeclaredBy(cur, "resources", names)
               /\ listing_log' = listing_log \o DeclaredSeq(cur, "resources", names)
               /\ sessions' = reg.map
               /\ available_resources' = reg.list
  /\ UNCHANGED <<exit_stack, released, closed, handshake, available_tools, available_prompts,
                 loopVars, exitBy>>

\* -------------------------------------------------------------- chat loop

\* A printed message, and a call made on a session.
Msg(m, a) == [msg |-> m, arg |-> a]
Call(op, session, name, arg) == [op |-> op, session |-> session, name |-> name, arg |-> arg]

\* What handling a command did: what it printed, the calls it made, and the
\* exception it let escape ("" when none).
Done(printed, made) == [out |-> printed, calls |-> made, raised |-> ""]
Raised(printed, exc) == [out |-> printed, calls |-> <<>>, raised |-> exc]

\* ChatBot.list_resources
list_resources ==
  IF available_resources = <<>>
  THEN Done(<<Msg("NoResources", <<>>)>>, <<>>)
  ELSE Done(<<Msg("ResourceList",
                  [i \in 1..Len(available_resources) |->
                     <<available_resources[i].name, available_resources[i].description>>])>>,
            <<>>)

\* [r for r in self.available_resources if r.name == resource_name]
ResourcesNamed(resource_name) ==
  SelectSeq(available_resources, LAMBDA r : r.name = resource_name)

\* The handlers below give the set of results a command can have: one
\* result, or one for each outcome of the session call it makes.

\* ChatBot.read_resource; args is accepted and not used. Indexing [0] of an
\* empty match list raises IndexError before the session is looked up.
read_resource(resource_name) ==
  LET found == ResourcesNamed(resource_name)
      session == SessionsGet(resource_name)
  IN IF found = <<>> THEN {Raised(<<>>, "IndexError")}
     ELSE IF session = None
          THEN {Done(<<Msg("ResourceNotFound", resource_name)>>, <<>>)}
     ELSE LET made == <<Call("read_resource", session, <<>>, found[1].uri)>>
          IN {IF outcome = "ok"
              THEN Done(<<Msg("Response", <<>>)>>, made)
              ELSE Done(<<Msg("ReadError", <<>>)>>, made) : outcome \in CallOutcomes}

\* ChatBot.process_query
process_query(text) ==
  LET session == SessionsGet(ToolName)
  IN IF session = None
     THEN {Done(<<Msg("ToolNotFound", ToolName)>>, <<>>)}
     ELSE LET made == <<Call("call_tool", session, ToolName, text)>>
          IN {IF outcome = "ok"
              THEN Done(<<Msg("Response", <<>>)>>, made)
              ELSE Done(<<Msg("ToolError", <<>>)>>, made) : outcome \in CallOutcomes}

\* "=" in arg
HasEquals(arg) == \E i \in 1..Len(arg) : arg[i] = "="

\* arg.split("=", 1): the text before the first "=" and the text after it
SplitAtFirstEquals(arg) ==
  LET at == CHOOSE i \in 1..Len(arg) :
              arg[i] = "=" /\ \A j \in 1..(i - 1) : arg[j] # "="
  IN <<SubSeq(arg, 1, at - 1), SubSeq(arg, at + 1, Len(arg))>>

\* ChatBot._clean_quoted_value; value[1:-1] of a one-character value is empty
clean_quoted_value(value) ==
  IF \/ StartsWith(value, <<"\"">>) /\ value[Len(value)] = "\""
     \/ StartsWith(value, <<"'">>) /\ value[Len(value)] = "'"
  THEN SubSeq(value, 2, Len(value) - 1)
  ELSE value

\* args[key] = value of a dict: a key already present keeps its place and
\* gets the new value, a new key goes last.
DictSet(d, key, value) ==
  IF \E i \in 1..Len(d) : d[i][1] = key
  THEN [i \in 1..Len(d) |-> IF d[i][1] = key THEN <<key, value>> ELSE d[i]]
  ELSE Append(d, <<key, value>>)

\* ChatBot._parse_prompt_arguments
RECURSIVE parse_prompt_arguments(_)
parse_prompt_arguments(tokens) ==
  IF tokens = <<>> THEN <<>>
  ELSE LET before == parse_prompt_arguments(SubSeq(tokens, 1, Len(tokens) - 1))
           arg == tokens[Len(tokens)]
       IN IF HasEquals(arg)
          THEN DictSet(before, SplitAtFirstEquals(arg)[1],
                       clean_quoted_value(SplitAtFirstEquals(arg)[2]))
          ELSE before

\* parts[2:] of a line that reaches _parse_prompt_arguments: an "@" line
\* other than "@resources" that tokenizes into two tokens or more.
PartsFrom2(lexed) ==
  IF lexed.ok /\ Len(lexed.tokens) >= 2
  THEN SubSeq(lexed.tokens, 3, Len(lexed.tokens))
  ELSE <<>>

ArgsGiven(text) ==
  IF StartsWith(text, AtSign) /\ text # AtResources
  THEN PartsFrom2(Tokenize(text))
  ELSE <<>>

\* args = self._parse_prompt_arguments(parts[2:])
DecodeGiven(given) ==
  /\ args_list' = given
  /\ args' = parse_prompt_arguments(given)

\* Mutant: a line that cannot be tokenized is treated as one without a name.
resource_commandNoParseError(text) ==
  LET lexed == Tokenize(text)
  IN IF ~lexed.ok \/ Len(lexed.tokens) < 2 THEN {Done(<<Msg("Usage", <<>>)>>, <<>>)}
     ELSE read_resource(lexed.tokens[2])

\* Lines 192-199 of chat_loop on parts, the value _parse_command_arguments
\* returned.
OnParts(lexed) ==
  IF ~lexed.ok THEN {Raised(<<Msg("ParseError", <<>>)>>, "TypeError")}
  ELSE IF Len(lexed.tokens) < 2 THEN {Done(<<Msg("Usage", <<>>)>>, <<>>)}
  ELSE read_resource(lexed.tokens[2])

\* The "@" branch of chat_loop other than "@resources":
\* _parse_command_arguments prints and returns None on a ValueError, and
\* len(None) then raises TypeError.
resource_command(text) == OnParts(Tokenize(text))

\* Mutant: only lines starting with "@resource" are resource commands; any
\* other "@" line goes to the default tool.
handleOtherAtAsText(text) ==
  IF StartsWith(text, AtResource)
  THEN IF text = AtResources THEN {list_resources}
       ELSE resource_command(text)
  ELSE process_query(text)

\* The body of one iteration of chat_loop for a line that is neither empty
\* nor quit.
handle(text) ==
  IF StartsWith(text, AtSign)
  THEN IF text = AtResources THEN {list_resources}
       ELSE resource_command(text)
  ELSE process_query(text)

\* Mutant: an exception that escapes a handler is swallowed, not reported.
CaughtSilently(result) == result.out

\* except Exception of chat_loop: the error is printed, the loop goes on.
Caught(result) ==
  IF result.raised = "" THEN result.out
  ELSE Append(result.out, Msg("LoopError", <<result.raised>>))

\* One iteration of chat_loop on a line that input() returned; text is
\* query = input(...).strip().
ChatIteration ==
  /\ phase = "Running" /\ ~eof
  /\ \E text \in Typed :
       /\ query' = text
       /\ DecodeGiven(ArgsGiven(text))
       /\ IF text = <<>>
          THEN /\ out' = <<>> /\ calls' = <<>>
               /\ UNCHANGED <<phase, exitBy>>
          ELSE IF Lower(text) = QuitWord
          THEN /\ out' = <<>> /\ calls' = <<>>
               /\ phase' = "Terminating"
               /\ exitBy' = "quit"
          ELSE \E result \in handle(text) :
                  /\ out' = Caught(result)
                  /\ calls' = result.calls
                  /\ UNCHANGED <<phase, exitBy>>
  /\ UNCHANGED <<cur, step, exit_stack, released, closed, handshake, listed, declared, listing_log,
                 registry, eof>>

\* input() raises EOFError at the end of input; EOFError is an Exception, so
\* the except clause of the loop catches it and the loop reads again. The
\* iteration read no line (query here is the line of the current iteration;
\* the stale local of the program is read by nobody).
ReadEOF ==
  /\ phase = "Running"
  /\ eof' = TRUE
  /\ query' = <<>>
  /\ out' = <<Msg("LoopError", <<"EOFError">>)>>
  /\ calls' = <<>>
  /\ args_list' = <<>> /\ args' = <<>>
  /\ UNCHANGED <<phase, cur, step, exit_stack, released, closed, handshake, listed,
                 declared, listing_log, registry, exitBy>>

\* A BaseException (KeyboardInterrupt, CancelledError) is not caught by any
\* "except Exception" of connect_to_server, connect_to_servers, chat_loop or
\* main: it leaves main's try block and the finally clause runs.
Interrupt ==
  /\ phase \in {"Connecting", "Running"}
  /\ phase' = "Terminating"
  /\ exitBy' = "interrupt"
  /\ query' = <<>> /\ out' = <<>> /\ calls' = <<>>
  /\ args_list' = <<>> /\ args' = <<>>
  /\ UNCHANGED <<cur, step, exit_stack, released, closed, handshake, listed, declared, listing_log,
                 registry, eof>>

\* ---------------------------------------------------------------- cleanup

\* The contexts in the order AsyncExitStack.aclose() exits them: last entered
\* first.
RECURSIVE Reverse(_)
Reverse(s) == IF s = <<>> THEN <<>> ELSE Append(Reverse(Tail(s)), Head(s))

\* Mutant: the context entered first is never exited.
CloseOrderLeaksOldest(stack) == IF stack = <<>> THEN <<>> ELSE Reverse(Tail(stack))

\* Mutant: the contexts are exited in the order they were entered.
CloseOrderOldestFirst(stack) == stack

CloseOrder(stack) == Reverse(stack)

\* How often each context is exited by exiting those of order.
ExitCounts(order) ==
  [c \in Contexts |-> Cardinality({i \in 1..Len(order) : order[i] = c})]

\* main's finally clause: cleanup, that is exit_stack.aclose(), which pops
\* and exits every context; main then ends.
Cleanup ==
  /\ phase = "Terminating"
  /\ LET order == CloseOrder(exit_stack)
         counts == ExitCounts(order)
     IN /\ closed' = closed \o order
        /\ released' = [c \in Contexts |-> released[c] + counts[c]]
  /\ exit_stack' = <<>>
  /\ phase' = "Exited"
  /\ UNCHANGED <<cur, step, handshake, listed, declared, listing_log, registry, loopVars, exitBy>>

Next ==
  \/ LaunchTransport \/ EnterSession \/ Initialize
  \/ DiscoverTools \/ DiscoverPrompts \/ DiscoverResources
  \/ ChatIteration \/ ReadEOF \/ Interrupt
  \/ Cleanup

Spec == Init /\ [][Next]_vars

\* ------------------------------------------------- argument decoding alone

\* A ChatBot as constructed, about to decode some list of argument tokens.
InitDecode ==
  /\ phase = "Running"
  /\ cur = NumServers + 1
  /\ step = "done"
  /\ exit_stack = <<>>
  /\ released = [c \in Contexts |-> 0]
  /\ closed = <<>>
  /\ handshake = [s \in Servers |-> "launch_failed"]
  /\ listed = [s \in Servers |-> [k \in {"tools", "prompts", "resources"} |-> "none"]]
  /\ declared = {}
  /\ listing_log = <<>>
  /\ available_tools = <<>>
  /\ available_prompts = <<>>
  /\ available_resources = <<>>
  /\ sessions = [n \in {} |-> None]
  /\ eof = FALSE
  /\ query = <<>>
  /\ out = <<>>
  /\ calls = <<>>
  /\ args_list \in TokenLists(MaxArgs)
  /\ args = <<>>
  /\ exitBy = "none"

\* args = self._parse_prompt_arguments(parts[2:])
DecodeArgs ==
  /\ args' = parse_prompt_arguments(args_list)
  /\ UNCHANGED <<phase, cur, step, exit_stack, released, closed, handshake, listed,
                 declared, listing_log, registry, eof, query, out, calls, args_list,
                 exitBy>>

NextDecode == DecodeArgs

SpecDecode == InitDecode /\ [][NextDecode]_vars

\* ------------------------------------------------------------- properties

FailedHandshakes == {"launch_failed", "init_failed"}

\* The list of a kind, and what a server's declaration of a name looks like
\* in it.
KindList(kind) ==
  CASE kind = "tools" -> available_tools
    [] kind = "prompts" -> available_prompts
    [] kind = "resources" -> available_resources

EntryOf(s, kind, n) ==
  CASE kind = "tools" -> ServerTool(s, n)
    [] kind = "prompts" -> PromptEntry(ServerPrompt(s, n))
    [] kind = "resources" -> ServerResource(s, n)

InList(list, item) == \E i \in 1..Len(list) : list[i] = item

EntriesNamed(list, n) == {i \in 1..Len(list) : list[i].name = n}

\* Whether connect_to_server has entered a context of server s.
Entered(c) ==
  LET s == c[2]
  IN \/ handshake[s] \in {"ok", "init_failed"}
     \/ /\ s = cur
        /\ phase # "Running"
        /\ \/ c[1] = "transport" /\ step \in {"session", "initialize"}
           \/ c[1] = "session" /\ step = "initialize"

OnStack(c) == Cardinality({i \in 1..Len(exit_stack) : exit_stack[i] = c})

\* C1 (isolation): when connect_to_servers has returned, every roster entry
\* has been attempted whatever failed before it (entries are attempted in
\* roster order), every server whose handshake succeeded went through all
\* three listings, and every name a listing returned is in that kind's list,
\* as that server's entry, and in the session map.
C1_Isolation ==
  /\ \A s \in Servers : (s < cur => handshake[s] # "pending")
                        /\ (s > cur => handshake[s] = "pending")
  /\ step = "done" =>
       /\ \A s \in Servers : handshake[s] # "pending"
       /\ \A s \in Servers : handshake[s] = "ok" =>
            \A k \in {"tools", "prompts", "resources"} : listed[s][k] # "none"
       /\ \A d \in declared :
            /\ InList(KindList(d[2]), EntryOf(d[1], d[2], d[3]))
            /\ d[3] \in DOMAIN sessions

\* A server failed its handshake and a later server registered a name.
C1_Witness ==
  /\ step = "done"
  /\ \E i, j \in Servers :
       /\ i < j
       /\ handshake[i] \in FailedHandshakes
       /\ handshake[j] = "ok"
       /\ \E d \in declared : d[1] = j

\* The word quit in any letter case.
IsQuitAnyCase(text) ==
  /\ Len(text) = 4
  /\ text[1] \in {"q", "Q"} /\ text[2] \in {"u", "U"}
  /\ text[3] \in {"i", "I"} /\ text[4] \in {"t", "T"}

\* C2 (quit): a line that is quit in any letter case ends the loop without
\* printing or calling anything; once the loop has ended no line is handled
\* and no call is made any more; and when the process has exited after quit,
\* every session that was entered has been exited exactly once.
C2_QuitTerminates ==
  /\ [][(phase = "Running" /\ IsQuitAnyCase(query'))
          => (phase' = "Terminating" /\ exitBy' = "quit"
                /\ out' = <<>> /\ calls' = <<>>)]_vars
  /\ [][(phase \in {"Terminating", "Exited"})
          => (phase' # "Running" /\ query' = query /\ out' = out /\ calls' = calls)]_vars
  /\ [](phase = "Exited" /\ exitBy = "quit" =>
          \A s \in Servers :
            released[<<"session", s>>] = (IF Entered(<<"session", s>>) THEN 1 ELSE 0))

\* The process has exited after QUIT in capitals, with a session released.
C2_Witness ==
  /\ phase = "Exited"
  /\ exitBy = "quit"
  /\ query = <<"Q","U","I","T">>
  /\ \E s \in Servers : released[<<"session", s>>] = 1

\* C3 (end of input): once input() has signalled the end of input the loop
\* is no longer Running.
C3_EofLeavesRunning == eof => phase # "Running"

\* C4 (release on every exit path): a context is exited at most once, every
\* context that was entered is either still on the exit stack or has been
\* exited once, and at process exit nothing is left on the stack.
C4_ReleasedOnce ==
  /\ \A c \in Contexts :
       released[c] + OnStack(c) = (IF Entered(c) THEN 1 ELSE 0)
  /\ phase = "Exited" => exit_stack = <<>>

\* Startup was interrupted after a server's initialize had failed, and that
\* server's transport and session were released at exit.
C4_Witness ==
  /\ phase = "Exited"
  /\ exitBy = "interrupt"
  /\ step # "done"
  /\ \E s \in Servers :
       /\ handshake[s] = "init_failed"
       /\ released[<<"transport", s>>] = 1
       /\ released[<<"session", s>>] = 1

\* The tokens of an "@resource <name> ..." line, when the line is one.
NamesResource(lexed) ==
  lexed.ok /\ Len(lexed.tokens) >= 2 /\ lexed.tokens[1] = AtResource

IsResourceRead(text) ==
  /\ StartsWith(text, AtSign)
  /\ text # AtResources
  /\ NamesResource(Tokenize(text))

NameRead(text) == Tokenize(text).tokens[2]

\* C5 (unknown resource): "@resource <name>" for a name that is no
\* registered resource prints the not-found message for that name and makes
\* no call.
C5_NotFoundMessage ==
  (phase = "Running" /\ IsResourceRead(query)
     /\ EntriesNamed(available_resources, NameRead(query)) = {})
    => (out = <<Msg("ResourceNotFound", NameRead(query))>> /\ calls = <<>>)

\* What dispatching text to the default tool leaves behind.
DefaultDispatch(text) ==
  IF SessionsGet(ToolName) = None
  THEN out = <<Msg("ToolNotFound", ToolName)>> /\ calls = <<>>
  ELSE /\ calls = <<Call("call_tool", SessionsGet(ToolName), ToolName, text)>>
       /\ out \in {<<Msg("Response", <<>>)>>, <<Msg("ToolError", <<>>)>>}

LastOwner(list, n) ==
  LET last == CHOOSE i \in EntriesNamed(list, n) : \A j \in EntriesNamed(list, n) : j <= i
  IN list[last].description[1]

\* C7 (last write wins): each kind holds at most one entry for a name, and
\* the session map gives a name registered in one kind only the session of
\* its last registration.
C7_OneEntryLastWins ==
  \A k \in {"tools", "prompts", "resources"}, n \in Names :
    /\ Cardinality(EntriesNamed(KindList(k), n)) <= 1
    /\ (EntriesNamed(KindList(k), n) # {}
          /\ \A k2 \in {"tools", "prompts", "resources"} \ {k} :
               EntriesNamed(KindList(k2), n) = {})
         => sessions[n] = LastOwner(KindList(k), n)

\* C8 (resource read): a read_resource call goes to a session with the
\* locator that this very session advertised for the name read, and it is
\* the only call of the iteration.
C8_LocatorOfOwner ==
  \A i \in 1..Len(calls) :
    (calls[i].op = "read_resource" /\ IsResourceRead(query)) =>
      /\ Len(calls) = 1
      /\ calls[i].session = SessionsGet(NameRead(query))
      /\ calls[i].arg = ServerResource(calls[i].session, NameRead(query)).uri

\* C9 (default tool in the Tool kind): for a line dispatched to the default
\* tool, no tool of the fixed name means the not-found message and no call,
\* and a tool of that name means a call on the session that registered it
\* last.
C9_ToolKindOnly ==
  (phase = "Running" /\ query # <<>> /\ ~StartsWith(query, AtSign)) =>
    IF EntriesNamed(available_tools, ToolName) = {}
    THEN out = <<Msg("ToolNotFound", ToolName)>> /\ calls = <<>>
    ELSE /\ Len(calls) = 1
         /\ calls[1].op = "call_tool"
         /\ calls[1].session = LastOwner(available_tools, ToolName)

\* C10 (release on handshake failure): while later servers are connected
\* and while the loop runs, no context of a server whose handshake failed
\* is still held.
C10_FailedServerReleased ==
  \A s \in Servers :
    (handshake[s] \in FailedHandshakes /\ phase \in {"Connecting", "Running"})
      => (OnStack(<<"transport", s>>) = 0 /\ OnStack(<<"session", s>>) = 0)

\* C11 (per-kind fault tolerance): the kinds of a server are listed in the
\* order tools, prompts, resources; once connect_to_server has returned for
\* a server whose handshake succeeded, all three kinds have been listed
\* whichever of them failed, and the names of every kind whose listing
\* succeeded are in that kind's list and in the session map.
C11_KindsIndependent ==
  \A s \in Servers :
    /\ listed[s]["resources"] # "none" => listed[s]["prompts"] # "none"
    /\ listed[s]["prompts"] # "none" => listed[s]["tools"] # "none"
    /\ (s < cur /\ handshake[s] = "ok") =>
         \A k \in {"tools", "prompts", "resources"} :
           /\ listed[s][k] \in {"ok", "error"}
           /\ \A d \in declared :
                (d[1] = s /\ d[2] = k) =>
                  /\ listed[s][k] = "ok"
                  /\ InList(KindList(k), EntryOf(s, k, d[3]))
                  /\ d[3] \in DOMAIN sessions

\* The tools listing of a server failed and its resources were registered.
C11_Witness ==
  \E s \in Servers :
    /\ s < cur
    /\ listed[s]["tools"] = "error"
    /\ listed[s]["prompts"] = "ok"
    /\ \E d \in declared : d[1] = s /\ d[2] = "resources"

\* An "@resource" line with one double quote that is never closed.
Count(text, c) == Cardinality({i \in 1..Len(text) : text[i] = c})

HasOpenQuote(text) ==
  /\ StartsWith(text, AtResource \o Sp)
  /\ Count(text, "\"") = 1
  /\ Count(text, "'") = 0
  /\ Count(text, "\\") = 0

\* C12 (unterminated quote): for an "@resource" line with an unterminated
\* quote the parse error is printed first, no call is made, the registry is
\* not consulted for a result (nothing but errors is printed) and the loop is
\* still Running; the line read next is handled as in any other state: quit
\* ends the loop and "@resources" prints the listing.
C12_OpenQuoteReported ==
  /\ [](HasOpenQuote(query) =>
         /\ phase = "Running"
         /\ out # <<>> /\ out[1] = Msg("ParseError", <<>>)
         /\ \A i \in 1..Len(out) : out[i].msg \in {"ParseError", "LoopError"}
         /\ calls = <<>>)
  /\ [][(HasOpenQuote(query) /\ query' = AtResources)
          => (phase' = "Running" /\ Len(out') = 1
                /\ out'[1].msg \in {"NoResources", "ResourceList"})]_vars
  /\ [][(HasOpenQuote(query) /\ query' = QuitWord) => phase' = "Terminating"]_vars

\* The line with the open quote has been handled.
C12_Witness ==
  /\ HasOpenQuote(query)
  /\ phase = "Running"
  /\ out[1].msg = "ParseError"

\* The names the servers declared for a kind, in roster order across servers
\* and declaration order within a server.
DeclaredNames(kind) ==
  LET of == SelectSeq(listing_log, LAMBDA d : d[2] = kind)
  IN [i \in 1..Len(of) |-> of[i][3]]

\* A sequence without the later repetitions of its elements.
RECURSIVE FirstOccurrences(_)
FirstOccurrences(s) ==
  IF s = <<>> THEN <<>>
  ELSE LET front == FirstOccurrences(SubSeq(s, 1, Len(s) - 1))
           last == s[Len(s)]
       IN IF \E i \in 1..Len(front) : front[i] = last THEN front
          ELSE Append(front, last)

NamesIn(list) == [i \in 1..Len(list) |-> list[i].name]

\* C13 (listing order): after startup every declared name has an owning
\* session that declared it, and the list of each kind holds exactly that
\* kind's declared names, each once, at the position of its first
\* registration.
C13_ListedOnceInOrder ==
  step = "done" =>
    /\ \A i \in 1..Len(listing_log) :
         LET n == listing_log[i][3]
         IN /\ n \in DOMAIN sessions
            /\ \E j \in 1..Len(listing_log) :
                 listing_log[j][1] = sessions[n] /\ listing_log[j][3] = n
    /\ \A k \in {"tools", "prompts", "resources"} :
         NamesIn(KindList(k)) = FirstOccurrences(DeclaredNames(k))

\* The messages that report a failure of one iteration.
FailureReports == {"ParseError", "LoopError", "ReadError", "ToolError"}

Reports(printed) == {printed[i].msg : i \in 1..Len(printed)}

\* C14 (iteration failures): a failure while handling one iteration (a line
\* that cannot be tokenized, a resource name with no record, a failing
\* call_tool or read_resource) is reported; the loop is then still Running
\* with nothing released, and the step that reports it neither ends the loop
\* nor changes what is held open.
C14_FailureKeepsLoop ==
  /\ [](HasOpenQuote(query) => "LoopError" \in Reports(out))
  /\ []((IsResourceRead(query) /\ ResourcesNamed(NameRead(query)) = <<>>)
          => out = <<Msg("LoopError", <<"IndexError">>)>>)
  /\ [](\A i \in 1..Len(calls) :
          \/ out = <<Msg("Response", <<>>)>>
          \/ calls[i].op = "read_resource" /\ out = <<Msg("ReadError", <<>>)>>
          \/ calls[i].op = "call_tool" /\ out = <<Msg("ToolError", <<>>)>>)
  /\ []((Reports(out) \cap FailureReports # {})
          => /\ phase = "Running"
             /\ closed = <<>>
             /\ \A c \in Contexts : released[c] = 0)
  /\ [][(Reports(out') \cap FailureReports # {})
          => /\ phase = "Running" /\ phase' = "Running"
             /\ exit_stack' = exit_stack
             /\ released' = released]_vars
  /\ [][(Reports(out) \cap FailureReports # {} /\ phase' # "Running")
          => exitBy' \in {"quit", "interrupt"}]_vars

C14_Witness ==
  /\ phase = "Running"
  /\ IsResourceRead(query)
  /\ out = <<Msg("LoopError", <<"IndexError">>)>>
  /\ exit_stack # <<>>

\* C15 (failed session unused): a server whose handshake failed owns no name
\* in the session map, has had no listing call made on it, has declared
\* nothing, and no call_tool or read_resource is made on its session.
C15_FailedNeverUsed ==
  \A s \in Servers :
    handshake[s] \in FailedHandshakes =>
      /\ \A n \in DOMAIN sessions : sessions[n] # s
      /\ \A k \in {"tools", "prompts", "resources"} : listed[s][k] = "none"
      /\ \A d \in declared : d[1] # s
      /\ \A i \in 1..Len(listing_log) : listing_log[i][1] # s
      /\ \A i \in 1..Len(calls) : calls[i].session # s

C15_Witness ==
  /\ phase = "Running"
  /\ \E s \in Servers : handshake[s] = "init_failed"
  /\ calls # <<>>

\* C16 (records are owned): in every state, every record in the tools,
\* prompts and resources lists has its name in the session map, mapped to a
\* session of the roster.
C16_RecordsOwned ==
  \A k \in {"tools", "prompts", "resources"} :
    \A i \in 1..Len(KindList(k)) :
      /\ KindList(k)[i].name \in DOMAIN sessions
      /\ sessions[KindList(k)[i].name] \in Servers

C16_Witness ==
  /\ phase = "Connecting"
  /\ available_tools # <<>>
  /\ available_prompts # <<>> \/ available_resources # <<>>

\* Every roster entry has gone through its discovery sequence: its handshake
\* failed, or it succeeded and each of its three listings returned or raised.
DiscoveryComplete ==
  \A s \in Servers :
    \/ handshake[s] \in FailedHandshakes
    \/ /\ handshake[s] = "ok"
       /\ \A k \in {"tools", "prompts", "resources"} : listed[s][k] \in {"ok", "error"}

\* C17 (registry frame): once the chat loop runs, no step changes the three
\* lists or the session map, whatever the command and whether it fails; and
\* the chat loop reads a line, prints or calls a session only after every
\* roster entry has completed its discovery sequence.
C17_RegistryReadOnly ==
  /\ [][(phase # "Connecting") => registry' = registry]_vars
  /\ [][(query' # query \/ out' # out \/ calls' # calls) => registry' = registry]_vars
  /\ [](phase = "Running" => DiscoveryComplete)
  /\ []((query # <<>> \/ out # <<>> \/ calls # <<>> \/ eof) => DiscoveryComplete)

C17_Witness ==
  /\ phase = "Running"
  /\ Registered > 0
  /\ \E s \in Servers : listed[s]["prompts"] = "error"
  /\ out = <<Msg("LoopError", <<"IndexError">>)>>

\* What C18 says decoding yields: for the tokens holding "=", in the order
\* given, the text before the first "=" paired with the text after it, less
\* one layer of quoting when that text begins and ends with the same quote
\* character (a lone quote character counts as wrapped, as it does in the
\* code).
WithEquals(tokens) == SelectSeq(tokens, LAMBDA tok : "=" \in {tok[i] : i \in 1..Len(tok)})

FirstEquals(tok) == CHOOSE i \in 1..Len(tok) : tok[i] = "=" /\ \A j \in 1..(i - 1) : tok[j] # "="

Unwrapped(v) ==
  IF Len(v) >= 1 /\ v[1] = v[Len(v)] /\ v[1] \in {"\"", "'"}
  THEN IF Len(v) = 1 THEN <<>> ELSE [i \in 1..(Len(v) - 2) |-> v[i + 1]]
  ELSE v

PairsGiven(tokens) ==
  [i \in 1..Len(WithEquals(tokens)) |->
     LET tok == WithEquals(tokens)[i]
         at == FirstEquals(tok)
     IN <<[j \in 1..(at - 1) |-> tok[j]],
          Unwrapped([j \in 1..(Len(tok) - at) |-> tok[at + j]])>>]

\* C18 (argument decoding): decoding the tokens after the resource name
\* yields, in the order given, one (key, value) pair per token containing
\* "=", split at the first "=" only, a value wrapped in a matching pair of
\* quotes losing one layer, tokens without "=" dropped, and no pair lost or
\* reordered, also when a key is repeated.
C18_DecodeKeepsPairs == [][args' = PairsGiven(args_list')]_vars

\* The same for lists of tokens whose keys are all different: there the code
\* does as C18 says.
C18_DistinctKeysDecoded ==
  [][(LET given == PairsGiven(args_list')
      IN \A i, j \in 1..Len(given) : given[i][1] = given[j][1] => i = j)
       => args' = PairsGiven(args_list')]_vars

\* Context c was acquired after context d: it belongs to a later roster
\* entry, or it is the session that runs on transport d.
AcquiredAfter(c, d) ==
  \/ c[2] > d[2]
  \/ c[2] = d[2] /\ c[1] = "session" /\ d[1] = "transport"

IsClosed(c) == \E i \in 1..Len(closed) : closed[i] = c

\* C19 (release order): the contexts are released in the reverse of the order
\* they were acquired in: of any two released, the one released first was
\* acquired later, so a session goes before its transport and a later
\* server's contexts before an earlier server's; a released transport has its
\* session released too; and after cleanup every acquired context is
\* released.
C19_ReverseRelease ==
  /\ \A i, j \in 1..Len(closed) : i < j => AcquiredAfter(closed[i], closed[j])
  /\ \A s \in Servers :
       (IsClosed(<<"transport", s>>) /\ handshake[s] \in {"ok", "init_failed"})
         => IsClosed(<<"session", s>>)
  /\ phase = "Exited" =>
       \A s \in Servers :
         /\ handshake[s] \in {"ok", "init_failed"}
              => IsClosed(<<"session", s>>) /\ IsClosed(<<"transport", s>>)
         /\ (handshake[s] = "pending" /\ s = cur /\ step \in {"session", "initialize"})
              => IsClosed(<<"transport", s>>)

C19_Witness ==
  /\ phase = "Exited"
  /\ Len(closed) >= 4
  /\ closed[1][1] = "session"
  /\ closed[1][2] > closed[Len(closed)][2]

====
